---------------------------- MODULE Spec2Model ----------------------------
(***************************************************************************)
(* InflatableText: letter lifecycle, inflation, physics and clock mode.    *)
(*                                                                         *)
(* Numbers are fixed point.  Lengths and positions are in 1/1000 world     *)
(* unit, velocities in 1/1000 world unit per 1/60 s, deltaTime in 1/60 s   *)
(* (so the code's deltaTime * 60 is the integer dt), multipliers such as   *)
(* bounciness, colliderSize and letterSpacing in tenths, inflation in      *)
(* 1/600 (InflationFull is the code's 1.0).  Every division rounds to the  *)
(* nearest unit (RDiv), standing for the code's floating point.            *)
(***************************************************************************)
EXTENDS Integers, Sequences, FiniteSets, TLC

VARIABLES
    font,           \* InflatableText.font is set (loaded)
    text,           \* value of the #text-input field
    objs,           \* the letter objects (letterObj) that are still referenced, by identity
    letterMeshes,   \* InflatableText.letterMeshes: sequence of object identities
    settings,       \* InflatableText.settings
    canvasBounds,   \* InflatableText.canvasBounds
    clock,          \* ClockMode
    timers,         \* live setInterval timers (their ids)
    date,           \* wall clock read by new Date(), in seconds of the day
    frames,         \* number of animate() callbacks run so far
    op              \* the handler that ran last, with its inputs

vars == <<font, text, objs, letterMeshes, settings, canvasBounds, clock, timers, date, frames, op>>

---------------------------------------------------------------------------
(* Bounds of the model *)

MaxTextLen == 2      \* longest value of the text field
MaxFrames == 3       \* animate() callbacks in one behaviour
MaxClockTicks == 2   \* seconds the wall clock advances in one behaviour
MaxLetters == 3      \* letters typed in the physics specification

(* Program constants *)

PosScale == 1000               \* one world unit
InflationFull == 600           \* inflation = 1.0
DefaultFontSize == 5000        \* settings.fontSize: 5
DefaultSpawnRadius == 5000     \* settings.spawnRadius: 5
DefaultBoundaryPadding == 5000 \* settings.boundaryPadding: 5
DefaultBounciness == 1         \* settings.bounciness: 0.1
DefaultColliderSize == 4       \* settings.colliderSize: 0.4
DefaultLetterSpacing == 3      \* settings.letterSpacing: 0.3
DefaultLineSpacing == 3        \* settings.lineSpacing: 0.3
DefaultInflationSpeed == 10    \* settings.inflationSpeed: 1.0
TargetBevelThickness == 23     \* settings.targetBevelThickness: 0.23
TargetBevelSize == 15          \* settings.targetBevelSize: 0.15
DefaultBoxWidth == 50000       \* settings.boundingBoxWidth: 50
DefaultBoxHeight == 40000      \* settings.boundingBoxHeight: 40
ClockBoxWidth == 200000        \* boundingBoxWidth forced by initClockMode: 200
ClockBoxHeight == 40000        \* boundingBoxHeight forced by initClockMode: 40
ClockFontSize == 15000         \* ClockMode.clockFontSize: 15
PushForce == 70                \* oldDigitSettings.pushForce: 0.07
OldDigitOpacity == 90          \* oldDigitSettings.opacity: 0.9, in percent
ScaleStart == 100              \* oldDigitSettings.scaleStart: 1.0, in percent
VisibleHeight == 34640         \* 2 * tan(60 deg / 2) * 30, the camera of init()
CameraAspect == 100            \* camera.aspect of the 1000x1000 canvas, in percent
StartDate == 45248             \* 12:34:08, the wall clock at the start

(* Inputs *)

Letters == {"a", "B"}
Alphabet == Letters \cup {" ", "\n"}
DtSet == {0, 35}                         \* deltaTime of one frame, in 1/60 s
GravitySet == {0, 10}                    \* settings.gravity: 0, 0.01
RandomSet == {0, 50}                     \* Math.random(), in percent
CirclePoints == << [c |-> 100, s |-> 0], [c |-> 80, s |-> 60] >>
                                         \* (cos, sin) of the random spawn angle, in percent

---------------------------------------------------------------------------
(* Arithmetic *)

Abs(a) == IF a < 0 THEN -a ELSE a

Sign(a) == IF a < 0 THEN -1 ELSE IF a > 0 THEN 1 ELSE 0

\* a / b for b > 0, rounded to the nearest integer (half away from zero)
RDiv(a, b) == Sign(a) * ((2 * Abs(a) + b) \div (2 * b))

Max(a, b) == IF a >= b THEN a ELSE b

\* The largest r in lo..hi with r * r <= n, for lo * lo <= n
RECURSIVE FloorSqrt(_, _, _)
FloorSqrt(n, lo, hi) ==
    IF lo >= hi THEN lo
    ELSE LET mid == (lo + hi + 1) \div 2
         IN IF mid * mid <= n THEN FloorSqrt(n, mid, hi) ELSE FloorSqrt(n, lo, mid - 1)

\* Math.sqrt(n) for 0 <= n <= lim * lim, rounded to the nearest integer
Sqrt(n, lim) ==
    LET r == FloorSqrt(n, 0, lim)
    IN IF n - r * r > r THEN r + 1 ELSE r

RECURSIVE MaxOver(_)
MaxOver(s) == IF s = <<>> THEN 0 ELSE Max(Head(s), MaxOver(Tail(s)))

---------------------------------------------------------------------------
(* Strings are sequences of one-character strings *)

\* String.prototype.toUpperCase on one character
UpperChar(c) == IF c = "a" THEN "A" ELSE c

ToUpperCase(s) == [i \in 1..Len(s) |-> UpperChar(s[i])]

\* /\s/ : the whitespace of the alphabet
IsWhitespace(c) == c \in {" ", "\n"}

\* line.replace(/\s/g, '')
StripWhitespace(s) == SelectSeq(s, LAMBDA c : ~IsWhitespace(c))

\* s.split(sep) for a one-character separator
RECURSIVE SplitOn(_, _)
SplitOn(s, sep) ==
    IF \A i \in 1..Len(s) : s[i] # sep THEN << s >>
    ELSE LET k == CHOOSE i \in 1..Len(s) : s[i] = sep /\ \A j \in 1..(i - 1) : s[j] # sep
         IN << SubSeq(s, 1, k - 1) >> \o SplitOn(SubSeq(s, k + 1, Len(s)), sep)

---------------------------------------------------------------------------
(* Geometry, meshes and letter objects *)

\* The geometry THREE.TextGeometry builds: what it was built from
\* (st is InflatableText.settings at the time of the call)
createLetterGeometry(st, char, bevelThickness, bevelSize) ==
    [ char |-> char,
      size |-> st.fontSize,
      bevelThickness |-> st.fontSize * bevelThickness,
      bevelSize |-> st.fontSize * bevelSize ]

\* A replacement that drops the old geometry without disposing it
ReplaceGeometryLeaking(mesh, geometry) ==
    [mesh EXCEPT !.geometry = geometry, !.geometryDisposed = FALSE, !.replacedUndisposed = TRUE]

\* oldGeometry = mesh.geometry; mesh.geometry = geometry; oldGeometry.dispose():
\* the mesh holds the new, live geometry, and the old one is disposed
\* (replacedUndisposed: a geometry this mesh held before was never disposed)
ReplaceGeometry(mesh, geometry) ==
    [mesh EXCEPT !.geometry = geometry, !.geometryDisposed = FALSE, !.replacedUndisposed = @]

\* createLetterMesh returns null while the font is not loaded
Null == [isNull |-> TRUE]

\* A creation that ignores gridPosition and takes the fallback spawn position
\* (angle 0 of the circle of radius spawnRadius)
createLetterMeshFallback(fnt, st, char, gridPosition) ==
    IF ~fnt THEN Null ELSE
    [ char |-> char,
      currentBevelThickness |-> 0,
      currentBevelSize |-> 0,
      inflation |-> 0,
      isInflating |-> TRUE,
      velocity |-> [x |-> 0, y |-> 0],
      position |-> [x |-> st.spawnRadius, y |-> 0],
      isStatic |-> FALSE,
      isClockDigit |-> FALSE,
      isFlyingDigit |-> FALSE,
      mesh |-> [ geometry |-> createLetterGeometry(st, char, 0, 0),
                 position |-> [x |-> st.spawnRadius, y |-> 0],
                 inScene |-> TRUE,
                 geometryDisposed |-> FALSE,
                 replacedUndisposed |-> FALSE,
                 materialDisposed |-> FALSE,
                 opacity |-> 100,
                 scale |-> 100 ] ]

\* A creation without the font check
createLetterMeshUnchecked(fnt, st, char, gridPosition) ==
    [ char |-> char,
      currentBevelThickness |-> 0,
      currentBevelSize |-> 0,
      inflation |-> 0,
      isInflating |-> TRUE,
      velocity |-> [x |-> 0, y |-> 0],
      position |-> [x |-> gridPosition.x, y |-> gridPosition.y],
      isStatic |-> FALSE,
      isClockDigit |-> FALSE,
      isFlyingDigit |-> FALSE,
      mesh |-> [ geometry |-> createLetterGeometry(st, char, 0, 0),
                 position |-> [x |-> gridPosition.x, y |-> gridPosition.y],
                 inScene |-> TRUE,
                 geometryDisposed |-> FALSE,
                 replacedUndisposed |-> FALSE,
                 materialDisposed |-> FALSE,
                 opacity |-> 100,
                 scale |-> 100 ] ]

\* The letter object createLetterMesh returns; its mesh has been added to the scene
createLetterMesh(fnt, st, char, gridPosition) ==
    IF ~fnt THEN Null ELSE
    [ char |-> char,
      currentBevelThickness |-> 0,
      currentBevelSize |-> 0,
      inflation |-> 0,
      isInflating |-> TRUE,
      velocity |-> [x |-> 0, y |-> 0],
      position |-> [x |-> gridPosition.x, y |-> gridPosition.y],
      isStatic |-> FALSE,
      isClockDigit |-> FALSE,
      isFlyingDigit |-> FALSE,
      mesh |-> [ geometry |-> createLetterGeometry(st, char, 0, 0),
                 position |-> [x |-> gridPosition.x, y |-> gridPosition.y],
                 inScene |-> TRUE,
                 geometryDisposed |-> FALSE,
                 replacedUndisposed |-> FALSE,
                 materialDisposed |-> FALSE,
                 opacity |-> 100,
                 scale |-> 100 ] ]

\* scene.remove(mesh); mesh.geometry.dispose(); mesh.material.dispose()
RemoveAndDispose(letterObj) ==
    [letterObj EXCEPT !.mesh.inScene = FALSE,
                      !.mesh.geometryDisposed = TRUE,
                      !.mesh.materialDisposed = TRUE]

\* Identity of the next object allocated
NewId(o) == CHOOSE n \in 1..(Cardinality(DOMAIN o) + 1) : n \notin DOMAIN o

\* Objects reachable from the program, or still holding a resource
Referenced(lm, ck) ==
    {lm[i] : i \in 1..Len(lm)}
        \cup {ck.digitMeshes[k] : k \in DOMAIN ck.digitMeshes}
        \cup {ck.colonMeshes[i] : i \in 1..Len(ck.colonMeshes)}

Released(letterObj) ==
    /\ ~letterObj.mesh.inScene
    /\ letterObj.mesh.geometryDisposed
    /\ letterObj.mesh.materialDisposed

\* Garbage collection: an unreferenced object that holds no resource is forgotten
Collect(o, lm, ck) ==
    LET keep == {id \in DOMAIN o : id \in Referenced(lm, ck) \/ ~Released(o[id])}
    IN [id \in keep |-> o[id]]

---------------------------------------------------------------------------
(* Canvas bounds *)

updateCanvasBounds(st) ==
    LET visibleHeight == IF st.useBoundingBoxSize THEN st.boundingBoxHeight ELSE VisibleHeight
        visibleWidth == IF st.useBoundingBoxSize THEN st.boundingBoxWidth
                        ELSE RDiv(VisibleHeight * CameraAspect, 100)
        padding == st.boundaryPadding
    IN [ minX |-> -RDiv(visibleWidth, 2) + padding,
         maxX |-> RDiv(visibleWidth, 2) - padding,
         minY |-> -RDiv(visibleHeight, 2) + padding,
         maxY |-> RDiv(visibleHeight, 2) - padding ]

---------------------------------------------------------------------------
(* Text wrapping for automatic spacing: wrapTextToFit *)

\* word.substring(i, i + n) for i = 0, n, 2n, ...
RECURSIVE Chunks(_, _)
Chunks(word, n) ==
    IF Len(word) = 0 THEN <<>>
    ELSE IF Len(word) <= n THEN << word >>
    ELSE << SubSeq(word, 1, n) >> \o Chunks(SubSeq(word, n + 1, Len(word)), n)

\* The words.forEach loop of one line, from word number k on; currentLine is the
\* line under construction; the result is the lines pushed to wrappedLines
RECURSIVE WrapWords(_, _, _, _)
WrapWords(words, k, currentLine, maxCharsPerLine) ==
    IF k > Len(words) THEN <<>>
    ELSE
      LET word == words[k]
          testLine == IF currentLine # <<>> THEN currentLine \o << " " >> \o word ELSE word
          fits == Len(testLine) <= maxCharsPerLine
          pushed == IF fits THEN <<>>
                    ELSE IF currentLine # <<>> THEN << currentLine >>
                    ELSE IF Len(word) > maxCharsPerLine THEN Chunks(word, maxCharsPerLine)
                    ELSE <<>>
          nextLine == IF fits THEN testLine
                      ELSE IF currentLine # <<>> THEN word
                      ELSE IF Len(word) > maxCharsPerLine THEN <<>>
                      ELSE word
          last == IF k = Len(words) /\ nextLine # <<>> THEN << nextLine >> ELSE <<>>
      IN pushed \o last \o WrapWords(words, k + 1, nextLine, maxCharsPerLine)

\* The lines.forEach loop
RECURSIVE WrapLines(_, _)
WrapLines(lines, maxCharsPerLine) ==
    IF lines = <<>> THEN <<>>
    ELSE (IF Len(Head(lines)) = 0 THEN << <<>> >>
          ELSE WrapWords(SplitOn(Head(lines), " "), 1, <<>>, maxCharsPerLine))
         \o WrapLines(Tail(lines), maxCharsPerLine)

\* wrapTextToFit without the adjustment of the cell sizes
wrapTextToFitUnadjusted(lines, boxWidth, boxHeight, letterWidth, letterHeight) ==
    LET maxCharsPerLine == boxWidth \div letterWidth
    IN IF maxCharsPerLine <= 0
       THEN [lines |-> lines, letterWidth |-> letterWidth, letterHeight |-> letterHeight]
       ELSE [lines |-> WrapLines(lines, maxCharsPerLine),
             letterWidth |-> letterWidth, letterHeight |-> letterHeight]

wrapTextToFit(lines, boxWidth, boxHeight, letterWidth, letterHeight) ==
    LET maxCharsPerLine == boxWidth \div letterWidth
        wrappedLines == WrapLines(lines, maxCharsPerLine)
        n == Len(wrappedLines)
        totalHeight == n * letterHeight
        heightV == IF totalHeight > boxHeight THEN RDiv(boxHeight, n) ELSE letterHeight
        maxLineLength == MaxOver([i \in 1..n |-> Len(StripWhitespace(wrappedLines[i]))])
        totalWidth == maxLineLength * letterWidth
        widthH == RDiv(boxWidth, maxLineLength)
        heightH == RDiv(widthH * 125, 100)
    IN IF maxCharsPerLine <= 0
       THEN [lines |-> lines, letterWidth |-> letterWidth, letterHeight |-> letterHeight]
       ELSE IF totalWidth > boxWidth
       THEN [lines |-> wrappedLines, letterWidth |-> widthH,
             letterHeight |-> IF n * heightH > boxHeight THEN RDiv(boxHeight, n) ELSE heightH]
       ELSE [lines |-> wrappedLines, letterWidth |-> letterWidth, letterHeight |-> heightV]

---------------------------------------------------------------------------
(* Layout of the text-input handler: newLetters *)

\* letterWidth, letterHeight and the lines to lay out
Spacing(upper, st, bounds) ==
    LET lines == SplitOn(upper, "\n")
        boxWidth == bounds.maxX - bounds.minX
        boxHeight == bounds.maxY - bounds.minY
        maxLineLength == MaxOver([i \in 1..Len(lines) |-> Len(lines[i])])
    IN IF st.autoSpacing
       THEN wrapTextToFit(lines, boxWidth, boxHeight,
                          RDiv(st.fontSize * 12, 10), RDiv(st.fontSize * 15, 10))
       ELSE [lines |-> lines,
             letterWidth |-> IF maxLineLength = 0 THEN 0
                             ELSE RDiv(boxWidth * st.letterSpacing, maxLineLength * 10),
             letterHeight |-> RDiv(boxHeight * st.lineSpacing, Len(lines) * 10)]

\* The inner for loop over the columns of one line, from column col on;
\* count is the number of letters already in newLetters, rnd the random
\* spawn angles, one per letter
RECURSIVE RowLetters(_, _, _, _, _, _, _, _, _)
RowLetters(line, rowIndex, col, charIndexInLine, count, sp, st, bounds, rnd) ==
    IF col > Len(line) THEN <<>>
    ELSE IF IsWhitespace(line[col])
    THEN RowLetters(line, rowIndex, col + 1, charIndexInLine, count, sp, st, bounds, rnd)
    ELSE
      LET boxWidth == bounds.maxX - bounds.minX
          boxHeight == bounds.maxY - bounds.minY
          verticalOffset == RDiv(boxHeight - Len(sp.lines) * sp.letterHeight, 2)
          lineWidth == Len(StripWhitespace(line)) * sp.letterWidth
          centerOffset == RDiv(boxWidth - lineWidth, 2)
          point == CirclePoints[rnd[count + 1]]
          x == IF st.randomSpawn THEN RDiv(point.c * st.spawnRadius, 100)
               ELSE bounds.minX + centerOffset + charIndexInLine * sp.letterWidth
                    + RDiv(sp.letterWidth, 2)
          y == IF st.randomSpawn THEN RDiv(point.s * st.spawnRadius, 100)
               ELSE bounds.maxY - verticalOffset - rowIndex * sp.letterHeight
                    - RDiv(sp.letterHeight, 2)
      IN << [char |-> line[col], x |-> x, y |-> y] >>
         \o RowLetters(line, rowIndex, col + 1, charIndexInLine + 1, count + 1, sp, st, bounds, rnd)

\* The lines.forEach loop, from row number row on
RECURSIVE RowsLetters(_, _, _, _, _, _)
RowsLetters(row, count, sp, st, bounds, rnd) ==
    IF row > Len(sp.lines) THEN <<>>
    ELSE LET these == RowLetters(sp.lines[row], row - 1, 1, 0, count, sp, st, bounds, rnd)
         IN these \o RowsLetters(row + 1, count + Len(these), sp, st, bounds, rnd)

\* newLetters of the handler for the upper-cased text
NewLetters(upper, st, bounds, rnd) ==
    RowsLetters(1, 0, Spacing(upper, st, bounds), st, bounds, rnd)

---------------------------------------------------------------------------
(* The text-input handler: reconcile the active list with newLetters *)

\* The objects o with those of the identities ids removed from the scene and disposed
DisposeAll(o, ids) ==
    [id \in DOMAIN o |-> IF id \in ids THEN RemoveAndDispose(o[id]) ELSE o[id]]

\* "Remove extra letters from the end": the identities popped off letterMeshes
RemovedIds(lm, n) == {lm[i] : i \in (n + 1)..Len(lm)}

\* A pop loop that stops one letter early
RemoveExcessButOne(lm, n) == IF n + 1 < Len(lm) THEN SubSeq(lm, 1, n + 1) ELSE lm

\* A pop loop that runs once more than removeCount
RemoveExcessAndOne(lm, n) == IF n <= Len(lm) /\ n >= 1 THEN SubSeq(lm, 1, n - 1) ELSE lm

\* letterMeshes after the pops
RemoveExcess(lm, n) == IF n < Len(lm) THEN SubSeq(lm, 1, n) ELSE lm

\* A test of the x offset alone
PositionChangedOnX(letterObj, newLetter) ==
    Abs(letterObj.position.x - newLetter.x) > PosScale \div 10

\* positionChanged of the handler
PositionChanged(letterObj, newLetter) ==
    \/ Abs(letterObj.position.x - newLetter.x) > PosScale \div 10
    \/ Abs(letterObj.position.y - newLetter.y) > PosScale \div 10

\* "Only update position if NOT in random spawn mode AND position has significantly changed"
UpdatePosition(letterObj, newLetter, st) ==
    IF ~st.randomSpawn /\ PositionChanged(letterObj, newLetter)
    THEN [letterObj EXCEPT !.position = [x |-> newLetter.x, y |-> newLetter.y],
                           !.velocity = [x |-> 0, y |-> 0]]
    ELSE letterObj

\* A character update that builds the new glyph as a fresh letter is built
UpdateCharReinflating(letterObj, newLetter, st) ==
    IF letterObj.char # newLetter.char
    THEN [letterObj EXCEPT !.char = newLetter.char,
                           !.inflation = 0,
                           !.isInflating = TRUE,
                           !.currentBevelThickness = 0,
                           !.currentBevelSize = 0,
                           !.mesh = ReplaceGeometry(@, createLetterGeometry(st, newLetter.char, 0, 0))]
    ELSE letterObj

\* "Update character if changed": rebuild the geometry with the current bevel values
UpdateChar(letterObj, newLetter, st) ==
    IF letterObj.char # newLetter.char
    THEN [letterObj EXCEPT !.char = newLetter.char,
                           !.mesh = ReplaceGeometry(@, createLetterGeometry(st, newLetter.char,
                                letterObj.currentBevelThickness, letterObj.currentBevelSize))]
    ELSE letterObj

\* The branch of an index that has a letter already
UpdateExisting(letterObj, newLetter, st) ==
    UpdateChar(UpdatePosition(letterObj, newLetter, st), newLetter, st)

\* The newLetters.forEach loop from index k (counted from 1) on
RECURSIVE ReconcileFrom(_, _, _, _, _, _)
ReconcileFrom(o, lm, newLetters, k, fnt, st) ==
    IF k > Len(newLetters) THEN [objs |-> o, letterMeshes |-> lm]
    ELSE IF k <= Len(lm)
    THEN ReconcileFrom([o EXCEPT ![lm[k]] = UpdateExisting(o[lm[k]], newLetters[k], st)],
                       lm, newLetters, k + 1, fnt, st)
    ELSE LET letterObj == createLetterMesh(fnt, st, newLetters[k].char, newLetters[k])
             id == NewId(o)
         IN IF letterObj = Null
            THEN ReconcileFrom(o, lm, newLetters, k + 1, fnt, st)
            ELSE ReconcileFrom([i \in DOMAIN o \cup {id} |-> IF i = id THEN letterObj ELSE o[i]],
                               Append(lm, id), newLetters, k + 1, fnt, st)

\* The handler from "Update existing letters positions and remove excess" on
Reconcile(o, lm, newLetters, fnt, st) ==
    ReconcileFrom(DisposeAll(o, RemovedIds(lm, Len(newLetters))),
                  RemoveExcess(lm, Len(newLetters)), newLetters, 1, fnt, st)

\* The early return of manual spacing: the longest line is empty
ManualReturnsEarly(upper, st) ==
    /\ ~st.autoSpacing
    /\ \A i \in 1..Len(upper) : upper[i] = "\n"

\* The bounding-box configuration of the settings
BoxSettings(st) == <<st.useBoundingBoxSize, st.boundingBoxWidth, st.boundingBoxHeight>>

\* What the last handler did, for the properties
NoOp == [name |-> "init", prevLen |-> 0, layout |-> <<>>, removed |-> <<>>,
         reconciled |-> FALSE, changed |-> {}, dt |-> 0, slots |-> {}, box |-> <<>>]

\* The random spawn angles that are read: those of the letters created
RandomAngles(lm, n, fnt, st) ==
    {rnd \in [1..n -> 1..Len(CirclePoints)] :
        \A i \in 1..n : (~st.randomSpawn \/ ~fnt \/ i <= Len(lm)) => rnd[i] = 1}

\* The 'input' listener of the text field, run for the value value under the
\* settings st; name is the handler that dispatched the event
inputHandler(value, st, name) ==
    LET upper == ToUpperCase(value)
        n == Len(StripWhitespace(upper))
    IN
    /\ text' = value
    /\ IF upper = <<>>
       THEN /\ objs' = Collect(DisposeAll(objs, RemovedIds(letterMeshes, 0)), <<>>, clock)
            /\ letterMeshes' = <<>>
            /\ op' = [NoOp EXCEPT !.name = name, !.prevLen = Len(letterMeshes),
                         !.removed = [i \in 1..Len(letterMeshes) |-> Released(RemoveAndDispose(objs[letterMeshes[i]]))]]
       ELSE IF ManualReturnsEarly(upper, st)
       THEN /\ UNCHANGED <<objs, letterMeshes>>
            /\ op' = [NoOp EXCEPT !.name = name, !.prevLen = Len(letterMeshes)]
       ELSE \E rnd \in RandomAngles(letterMeshes, n, font, st) :
            \E newLetters \in {NewLetters(upper, st, canvasBounds, rnd)} :
            \E r \in {Reconcile(objs, letterMeshes, newLetters, font, st)} :
               /\ objs' = Collect(r.objs, r.letterMeshes, clock)
               /\ letterMeshes' = r.letterMeshes
               /\ op' = [NoOp EXCEPT !.name = name, !.prevLen = Len(letterMeshes),
                            !.layout = newLetters, !.reconciled = TRUE,
                            !.changed = {i \in 1..Len(newLetters) : i <= Len(letterMeshes)
                                            /\ objs[letterMeshes[i]].char # newLetters[i].char},
                            !.removed = [i \in 1..(Len(letterMeshes) - Len(r.letterMeshes)) |->
                                            Released(r.objs[letterMeshes[Len(r.letterMeshes) + i]])]]

\* An 'input' event of the user
textInput(value) ==
    /\ inputHandler(value, settings, "textInput")
    /\ UNCHANGED <<font, settings, canvasBounds, clock, timers, date, frames>>

\* A keystroke that inserts the character c after the first p characters
TypeChar ==
    \E p \in 0..Len(text), c \in Alphabet :
        /\ Len(text) < MaxTextLen
        /\ textInput(SubSeq(text, 1, p) \o << c >> \o SubSeq(text, p + 1, Len(text)))

\* A keystroke that deletes the character number p
DeleteChar ==
    \E p \in 1..Len(text) :
        textInput(SubSeq(text, 1, p - 1) \o SubSeq(text, p + 1, Len(text)))

---------------------------------------------------------------------------
(* The frame loop: updateLetters *)

\* The increment without the clamp
AdvanceInflationUnclamped(inflation, dt, st) ==
    inflation + dt * st.inflationSpeed

\* inflation after "inflation += deltaTime * inflationSpeed" and the clamp to 1.0
AdvanceInflation(inflation, dt, st) ==
    IF inflation + dt * st.inflationSpeed >= InflationFull THEN InflationFull
    ELSE inflation + dt * st.inflationSpeed

\* Ease-out cubic, 1 - (1 - inflation)^3, in thousandths
EaseOutCubic(inflation) ==
    LET q == InflationFull - inflation
    IN RDiv(InflationFull * InflationFull * InflationFull - q * q * q,
            (InflationFull * InflationFull * InflationFull) \div 1000)

\* An inflation animation that forgets to stop: isInflating is left set
InflateKeepsFlag(letterObj, dt, st) ==
    IF ~letterObj.isInflating THEN letterObj
    ELSE LET inflation == AdvanceInflation(letterObj.inflation, dt, st)
             eased == EaseOutCubic(inflation)
             thickness == eased * st.targetBevelThickness
             size == eased * st.targetBevelSize
         IN [letterObj EXCEPT !.inflation = inflation,
                              !.currentBevelThickness = thickness,
                              !.currentBevelSize = size,
                              !.mesh = ReplaceGeometry(@, createLetterGeometry(st, letterObj.char, thickness, size))]

\* "INFLATION ANIMATION (plays once on spawn)"
Inflate(letterObj, dt, st) ==
    IF ~letterObj.isInflating THEN letterObj
    ELSE LET inflation == AdvanceInflation(letterObj.inflation, dt, st)
             eased == EaseOutCubic(inflation)
             thickness == eased * st.targetBevelThickness
             size == eased * st.targetBevelSize
         IN [letterObj EXCEPT !.inflation = inflation,
                              !.isInflating = inflation < InflationFull,
                              !.currentBevelThickness = thickness,
                              !.currentBevelSize = size,
                              !.mesh = ReplaceGeometry(@, createLetterGeometry(st, letterObj.char, thickness, size))]

\* "Apply gravity" and "Update position"
Integrate(letterObj, dt, st) ==
    LET vy == letterObj.velocity.y - st.gravity * dt
    IN [letterObj EXCEPT !.velocity.y = vy,
                         !.position.x = letterObj.position.x + letterObj.velocity.x * dt,
                         !.position.y = letterObj.position.y + vy * dt]

\* "Boundary collision with bounce", one axis: the position and the velocity
ClampAxis(pos, vel, lo, hi, st) ==
    IF pos < lo THEN [pos |-> lo, vel |-> RDiv(Abs(vel) * st.bounciness, 10)]
    ELSE IF pos > hi THEN [pos |-> hi, vel |-> -RDiv(Abs(vel) * st.bounciness, 10)]
    ELSE [pos |-> pos, vel |-> vel]

BoundaryCollision(letterObj, st, bounds) ==
    LET cx == ClampAxis(letterObj.position.x, letterObj.velocity.x, bounds.minX, bounds.maxX, st)
        cy == ClampAxis(letterObj.position.y, letterObj.velocity.y, bounds.minY, bounds.maxY, st)
    IN [letterObj EXCEPT !.position = [x |-> cx.pos, y |-> cy.pos],
                         !.velocity = [x |-> cx.vel, y |-> cy.vel]]

\* "Update mesh position"
SyncMesh(letterObj) ==
    [letterObj EXCEPT !.mesh.position = letterObj.position]

\* The body of the letterMeshes.forEach loop for one letter
UpdateLetter(letterObj, dt, st, bounds) ==
    SyncMesh(BoundaryCollision(Integrate(Inflate(letterObj, dt, st), dt, st), st, bounds))

\* The letterMeshes.forEach loop from index k (counted from 1) on
RECURSIVE ForEachFrom(_, _, _, _, _, _)
ForEachFrom(o, lm, k, dt, st, bounds) ==
    IF k > Len(lm) THEN o
    ELSE ForEachFrom([o EXCEPT ![lm[k]] = UpdateLetter(o[lm[k]], dt, st, bounds)],
                     lm, k + 1, dt, st, bounds)

\* The objects after the forEach loop
AfterForEach(o, lm, dt, st, bounds) == ForEachFrom(o, lm, 1, dt, st, bounds)

\* minDistance of the collision test
MinDistance(st) == 2 * RDiv(st.fontSize * st.colliderSize, 10)

\* Squared distance of two letters when both offsets are below lim, else lim * lim
Distance2(a, b, lim) ==
    LET dx == b.position.x - a.position.x
        dy == b.position.y - a.position.y
    IN IF Abs(dx) >= lim \/ Abs(dy) >= lim THEN lim * lim ELSE dx * dx + dy * dy

\* A collision test without the guard distance > 0
CollidingUnguarded(a, b, st) ==
    Distance2(a, b, MinDistance(st)) < MinDistance(st) * MinDistance(st)

\* "Check for collision": distance < minDistance && distance > 0
Colliding(a, b, st) ==
    LET d2 == Distance2(a, b, MinDistance(st))
    IN d2 > 0 /\ d2 < MinDistance(st) * MinDistance(st)

\* An offset that points from letterB to letterA
SeparationInward(a, b, st) ==
    LET dx == a.position.x - b.position.x
        dy == a.position.y - b.position.y
        distance == Sqrt(dx * dx + dy * dy, MinDistance(st))
        overlap == MinDistance(st) - distance
    IN [x |-> RDiv(dx * overlap, 2 * distance), y |-> RDiv(dy * overlap, 2 * distance)]

\* The value that stands for NaN, the result of 0 / 0
NaN == -(2 ^ 30)

\* a / distance of the collision normal: NaN when the distance is 0 (the
\* numerator is 0 as well)
OverDistance(a, distance) == IF distance = 0 THEN NaN ELSE RDiv(a, distance)

\* The offset by which each letter of a colliding pair is moved
Separation(a, b, st) ==
    LET dx == b.position.x - a.position.x
        dy == b.position.y - a.position.y
        distance == Sqrt(dx * dx + dy * dy, MinDistance(st))
        overlap == MinDistance(st) - distance
    IN [x |-> OverDistance(dx * overlap, 2 * distance),
        y |-> OverDistance(dy * overlap, 2 * distance)]

\* The velocity change of a colliding pair: impulse * (nx, ny), zero unless approaching
Impulse(a, b, st) ==
    LET dx == b.position.x - a.position.x
        dy == b.position.y - a.position.y
        distance == Sqrt(dx * dx + dy * dy, MinDistance(st))
        dvx == b.velocity.x - a.velocity.x
        dvy == b.velocity.y - a.velocity.y
        relativeVelocity == dvx * dx + dvy * dy
        impulse == OverDistance(relativeVelocity * st.bounciness, 10 * distance)
    IN IF relativeVelocity < 0
       THEN [x |-> OverDistance(impulse * dx, distance), y |-> OverDistance(impulse * dy, distance)]
       ELSE [x |-> 0, y |-> 0]

\* The body of "if (distance < minDistance && distance > 0)" for
\* letterA = o[ia], letterB = o[ib]
CollidePair(o, ia, ib, st) ==
    LET sep == Separation(o[ia], o[ib], st)
        imp == Impulse(o[ia], o[ib], st)
    IN [o EXCEPT ![ia].position = [x |-> o[ia].position.x - sep.x, y |-> o[ia].position.y - sep.y],
                 ![ib].position = [x |-> o[ib].position.x + sep.x, y |-> o[ib].position.y + sep.y],
                 ![ia].velocity = [x |-> o[ia].velocity.x - imp.x, y |-> o[ia].velocity.y - imp.y],
                 ![ib].velocity = [x |-> o[ib].velocity.x + imp.x, y |-> o[ib].velocity.y + imp.y]]

\* The inner loop "for (let j = i + 1; ...)" from j on
RECURSIVE CollideWithRest(_, _, _, _, _)
CollideWithRest(o, lm, i, j, st) ==
    IF j > Len(lm) THEN o
    ELSE IF Colliding(o[lm[i]], o[lm[j]], st)
    THEN CollideWithRest(CollidePair(o, lm[i], lm[j], st), lm, i, j + 1, st)
    ELSE CollideWithRest(o, lm, i, j + 1, st)

\* "Letter-to-letter collision detection": the objects after the iterations
\* i = 1 .. n of the outer loop
RECURSIVE CollisionPass(_, _, _, _)
CollisionPass(o, lm, n, st) ==
    IF n = 0 THEN o
    ELSE CollideWithRest(CollisionPass(o, lm, n - 1, st), lm, n, n + 1, st)

updateLetters(o, lm, dt, st, bounds) ==
    CollisionPass(AfterForEach(o, lm, dt, st, bounds), lm, Len(lm), st)

\* One callback of the frame loop with deltaTime dt.  The squish animation
\* is disabled (settings.squishAnimation = false), so updateSquishAnimation
\* leaves canvasBounds alone; rendering changes no state.
Frame(dt) ==
    /\ objs' = updateLetters(objs, letterMeshes, dt, settings, canvasBounds)
    /\ op' = [NoOp EXCEPT !.name = "animate", !.dt = dt]
    /\ UNCHANGED <<font, text, letterMeshes, settings, canvasBounds, clock, timers, date>>

\* deltaTime of a callback that follows an hour in which the page was hidden
\* (requestAnimationFrame is paused meanwhile), in 1/60 s
HiddenDtSet == {0, 216000}

\* The frame loop of a page that is hidden between callbacks, any number of
\* callbacks
animate ==
    \E dt \in HiddenDtSet : Frame(dt) /\ UNCHANGED frames

\* The frame loop, at most MaxFrames callbacks
animateBounded ==
    \E dt \in DtSet : frames < MaxFrames /\ frames' = frames + 1 /\ Frame(dt)

---------------------------------------------------------------------------
(* Other handlers of the control panel *)

\* The font loader's success callback
fontLoaded ==
    /\ ~font
    /\ font' = TRUE
    /\ text' = <<>>
    /\ op' = [NoOp EXCEPT !.name = "fontLoaded"]
    /\ UNCHANGED <<objs, letterMeshes, settings, canvasBounds, clock, timers, date, frames>>

\* Spacing mode radio buttons
spacingRandom ==
    /\ ~settings.randomSpawn
    /\ settings' = [settings EXCEPT !.randomSpawn = TRUE, !.autoSpacing = FALSE]
    /\ op' = [NoOp EXCEPT !.name = "spacingRandom"]
    /\ UNCHANGED <<font, text, objs, letterMeshes, canvasBounds, clock, timers, date, frames>>

spacingAutomatic ==
    /\ settings.randomSpawn \/ ~settings.autoSpacing
    /\ settings' = [settings EXCEPT !.randomSpawn = FALSE, !.autoSpacing = TRUE]
    /\ inputHandler(text, settings', "spacingAutomatic")
    /\ UNCHANGED <<font, canvasBounds, clock, timers, date, frames>>

spacingManual ==
    /\ settings.randomSpawn \/ settings.autoSpacing
    /\ settings' = [settings EXCEPT !.randomSpawn = FALSE, !.autoSpacing = FALSE]
    /\ inputHandler(text, settings', "spacingManual")
    /\ UNCHANGED <<font, canvasBounds, clock, timers, date, frames>>

\* A restart that resets the progress and the bevels only
ReplayedProgressOnly(letterObj) ==
    [letterObj EXCEPT !.inflation = 0, !.currentBevelThickness = 0, !.currentBevelSize = 0]

\* The body of the replay loop for one letter
Replayed(letterObj) ==
    [letterObj EXCEPT !.inflation = 0, !.currentBevelThickness = 0,
                      !.currentBevelSize = 0, !.isInflating = TRUE]

\* Replay button
replay ==
    /\ letterMeshes # <<>>
    /\ objs' = [id \in DOMAIN objs |->
                  IF \E i \in 1..Len(letterMeshes) : letterMeshes[i] = id
                  THEN Replayed(objs[id])
                  ELSE objs[id]]
    /\ op' = [NoOp EXCEPT !.name = "replay"]
    /\ UNCHANGED <<font, text, letterMeshes, settings, canvasBounds, clock, timers, date, frames>>

\* Gravity slider
setGravity ==
    \E g \in GravitySet :
        /\ g # settings.gravity
        /\ settings' = [settings EXCEPT !.gravity = g]
        /\ op' = [NoOp EXCEPT !.name = "setGravity"]
        /\ UNCHANGED <<font, text, objs, letterMeshes, canvasBounds, clock, timers, date, frames>>

---------------------------------------------------------------------------
(* Initial state: after init() *)

InitialSettings ==
    [ inflationSpeed |-> DefaultInflationSpeed,
      fontSize |-> DefaultFontSize,
      autoSpacing |-> TRUE,
      randomSpawn |-> FALSE,
      letterSpacing |-> DefaultLetterSpacing,
      lineSpacing |-> DefaultLineSpacing,
      targetBevelThickness |-> TargetBevelThickness,
      targetBevelSize |-> TargetBevelSize,
      spawnRadius |-> DefaultSpawnRadius,
      gravity |-> 0,
      boundaryPadding |-> DefaultBoundaryPadding,
      bounciness |-> DefaultBounciness,
      colliderSize |-> DefaultColliderSize,
      useBoundingBoxSize |-> FALSE,
      boundingBoxWidth |-> DefaultBoxWidth,
      boundingBoxHeight |-> DefaultBoxHeight ]

InitialClock ==
    [ enabled |-> FALSE,
      currentTime |-> <<>>,
      digitPositions |-> <<>>,
      digitMeshes |-> << >>,
      intervalId |-> 0,
      colonMeshes |-> <<>>,
      clockFontSize |-> ClockFontSize ]

Init ==
    /\ font = FALSE
    /\ text = <<>>
    /\ objs = << >>
    /\ letterMeshes = <<>>
    /\ settings = InitialSettings
    /\ canvasBounds = updateCanvasBounds(InitialSettings)
    /\ clock = InitialClock
    /\ timers = {}
    /\ date = StartDate
    /\ frames = 0
    /\ op = NoOp

\* The text tool: typing, spacing modes and the frame loop
Next ==
    \/ fontLoaded
    \/ TypeChar
    \/ DeleteChar
    \/ spacingRandom
    \/ spacingAutomatic
    \/ spacingManual
    \/ animateBounded

Spec == Init /\ [][Next]_vars

\* A keystroke that appends a letter (which letter plays no part in the physics)
AppendLetter ==
    \E c \in {"a"} :
        /\ Len(text) < MaxLetters
        /\ textInput(Append(text, c))

\* Physics: letters spawned at random, gravity and the frame loop
PhysicsNext ==
    \/ fontLoaded
    \/ spacingRandom
    \/ spacingAutomatic
    \/ AppendLetter
    \/ setGravity
    \/ animateBounded

PhysicsSpec == Init /\ [][PhysicsNext]_vars

---------------------------------------------------------------------------
(* Properties of the text-input handler *)

\* The handler whose effect the state shows ran the reconcile path
InputReconciled == op.reconciled

\* C1: when the text-input handler runs with the font loaded on a list of N
\* letters and the new layout has M letters, 0 < M < N, the list has exactly
\* M letters afterwards, the letter at each index has the character of
\* newLetters at that index, and each of the N - M letters popped is out of
\* the scene with its geometry and its material disposed.
C1_ReconcileTruncates ==
    (InputReconciled /\ font /\ 0 < Len(op.layout) /\ Len(op.layout) < op.prevLen) =>
        /\ Len(letterMeshes) = Len(op.layout)
        /\ \A i \in 1..Len(letterMeshes) : objs[letterMeshes[i]].char = op.layout[i].char
        /\ Len(op.removed) = op.prevLen - Len(op.layout)
        /\ \A i \in 1..Len(op.removed) : op.removed[i]

\* A reconcile that shrank a list of letters to a shorter, non-empty one
C1_Witness ==
    /\ InputReconciled /\ font
    /\ 0 < Len(op.layout) /\ Len(op.layout) < op.prevLen
    /\ Len(letterMeshes) = Len(op.layout)
    /\ Len(op.removed) >= 1

\* C9: a letter that survives a reconcile keeps its inflation progress, its
\* inflating flag and its bevel values, whether or not its character or its
\* position changes; a changed character rebuilds the geometry from the
\* bevel values the letter had.
C9_ReconcileKeepsInflation ==
    [][op'.reconciled =>
        \A i \in 1..Len(letterMeshes) : i <= Len(op'.layout) =>
            LET before == objs[letterMeshes[i]]
                after == objs'[letterMeshes'[i]]
            IN /\ letterMeshes'[i] = letterMeshes[i]
               /\ after.inflation = before.inflation
               /\ after.isInflating = before.isInflating
               /\ after.currentBevelThickness = before.currentBevelThickness
               /\ after.currentBevelSize = before.currentBevelSize
               /\ after.mesh.geometry.bevelThickness = settings'.fontSize * before.currentBevelThickness
               /\ after.mesh.geometry.bevelSize = settings'.fontSize * before.currentBevelSize]_vars

\* An insertion before a letter that had started to inflate: the letter's
\* character changed and the list grew
C9_Witness ==
    /\ InputReconciled
    /\ Len(letterMeshes) > op.prevLen
    /\ \E i \in op.changed : objs[letterMeshes[i]].inflation > 0

---------------------------------------------------------------------------
(* Properties of the frame loop *)

\* The handler whose effect the state shows is a callback of the frame loop
FrameRan == op.name = "animate"

\* C2: inflation never exceeds 1, and a frame tick never lowers the
\* inflation of a letter that is inflating.
C2_InflationMonotone ==
    /\ [](\A id \in DOMAIN objs : objs[id].inflation <= InflationFull)
    /\ [][op'.name = "animate" =>
            \A i \in 1..Len(letterMeshes) :
                objs[letterMeshes[i]].isInflating =>
                    objs'[letterMeshes[i]].inflation >= objs[letterMeshes[i]].inflation]_vars

\* A frame tick brought one letter to full inflation while another is part-way
C2_Witness ==
    /\ FrameRan /\ op.dt > 0
    /\ \E i, j \in 1..Len(letterMeshes) :
          /\ objs[letterMeshes[i]].inflation = InflationFull
          /\ ~objs[letterMeshes[i]].isInflating
          /\ objs[letterMeshes[j]].inflation > 0
          /\ objs[letterMeshes[j]].inflation < InflationFull

\* position within the canvas bounds
InBounds(letterObj, bounds) ==
    /\ bounds.minX <= letterObj.position.x /\ letterObj.position.x <= bounds.maxX
    /\ bounds.minY <= letterObj.position.y /\ letterObj.position.y <= bounds.maxY

\* C3 as stated: at the end of every frame tick, collision pass included,
\* every letter of the list that is not static lies within the canvas bounds.
C3_ContainedAfterFrame ==
    FrameRan =>
        \A i \in 1..Len(letterMeshes) :
            ~objs[letterMeshes[i]].isStatic => InBounds(objs[letterMeshes[i]], canvasBounds)

\* The squared distances of the pair (i, j) of the list before and after the
\* collision pass of a frame step, capped at minDistance squared
PairBefore(i, j) ==
    LET mid == AfterForEach(objs, letterMeshes, op'.dt, settings, canvasBounds)
    IN Distance2(mid[letterMeshes[i]], mid[letterMeshes[j]], MinDistance(settings))

PairAfter(i, j) ==
    Distance2(objs'[letterMeshes[i]], objs'[letterMeshes[j]], MinDistance(settings))

\* No pair that overlaps when the collision pass starts is closer when it ends
PairsNotCloser ==
    \A i, j \in 1..Len(letterMeshes) :
        (i < j /\ PairBefore(i, j) < MinDistance(settings) * MinDistance(settings)) =>
            PairAfter(i, j) >= PairBefore(i, j)

\* C4 as stated: for any number of letters, every pair at distance d < 2r at
\* the start of the collision pass is at distance >= d at its end.
C4_SeparationAnyNumber ==
    [][op'.name = "animate" => PairsNotCloser]_vars

\* C4 amended: when the list holds exactly two letters, the pair is no closer
\* at the end of the collision pass than it was at its start.
C4_SeparationTwoLetters ==
    [][(op'.name = "animate" /\ Len(letterMeshes) = 2) => PairsNotCloser]_vars

\* A frame tick moved two overlapping letters apart
C4_Witness ==
    /\ FrameRan /\ Len(letterMeshes) = 2
    /\ objs[letterMeshes[1]].position # objs[letterMeshes[1]].mesh.position
    /\ objs[letterMeshes[2]].position # objs[letterMeshes[2]].mesh.position

---------------------------------------------------------------------------
(* Position override of the text-input handler *)

\* The reconcile of a step overrode the position of the letter at index i
Overridden(i) ==
    /\ ~settings'.randomSpawn
    /\ \/ Abs(objs[letterMeshes[i]].position.x - op'.layout[i].x) * 10 > PosScale
       \/ Abs(objs[letterMeshes[i]].position.y - op'.layout[i].y) * 10 > PosScale

\* C10: the reconcile overwrites the position of an existing letter with
\* the laid-out position, and zeroes its velocity, only when randomSpawn is
\* false and the two differ by more than 0.1 on x or on y; otherwise position
\* and velocity are unchanged.
C10_PositionOverride ==
    [][op'.reconciled =>
        \A i \in 1..Len(letterMeshes) : i <= Len(op'.layout) =>
            LET before == objs[letterMeshes[i]]
                after == objs'[letterMeshes[i]]
            IN IF Overridden(i)
               THEN /\ after.position = [x |-> op'.layout[i].x, y |-> op'.layout[i].y]
                    /\ after.velocity = [x |-> 0, y |-> 0]
               ELSE /\ after.position = before.position
                    /\ after.velocity = before.velocity]_vars

\* A reconcile moved a falling letter back to its laid-out place: it is at
\* rest there while its mesh is still where the frame loop put it
C10_Witness ==
    /\ InputReconciled /\ ~settings.randomSpawn
    /\ \E i \in 1..Len(letterMeshes) :
          /\ i <= op.prevLen
          /\ objs[letterMeshes[i]].position = [x |-> op.layout[i].x, y |-> op.layout[i].y]
          /\ objs[letterMeshes[i]].velocity = [x |-> 0, y |-> 0]
          /\ objs[letterMeshes[i]].mesh.position.y < objs[letterMeshes[i]].position.y

---------------------------------------------------------------------------
(* Clock mode (clock.js) *)

\* String(n).padStart(2, '0') of a number below 100
DigitChars == << "0", "1", "2", "3", "4", "5", "6", "7", "8", "9" >>

PadStart2(n) == << DigitChars[(n \div 10) + 1], DigitChars[(n % 10) + 1] >>

\* formatTime(date): "HH:MM:SS", date in seconds of the day
formatTime(d) ==
    PadStart2((d \div 3600) % 24) \o << ":" >> \o PadStart2((d \div 60) % 60)
        \o << ":" >> \o PadStart2(d % 60)

\* Slot indices of the digits and of the colons
DigitSlots == {0, 1, 3, 4, 6, 7}
ColonSlots == {2, 5}

\* calculateDigitPositions(): the eight slot positions (slot i is element i + 1)
calculateDigitPositions(st, bounds, ck) ==
    LET centerY == RDiv(bounds.minY + bounds.maxY, 2)
        baseSpacing == RDiv(ck.clockFontSize * 12, 10)
        charSpacing == IF st.autoSpacing THEN baseSpacing
                       ELSE RDiv(baseSpacing * st.letterSpacing, 10)
        totalWidth == 7 * charSpacing
        startX == -RDiv(totalWidth, 2)
    IN [i \in 1..8 |-> [x |-> startX + (i - 1) * charSpacing,
                        y |-> centerY,
                        isColon |-> (i - 1) \in ColonSlots]]

\* The letters and the clock's references to them, threaded through the
\* clock functions
World(o, lm, dm, cm) == [objs |-> o, letterMeshes |-> lm, digitMeshes |-> dm, colonMeshes |-> cm]

\* clearAllLetters(): every letter of the list leaves the scene and is
\* disposed, and the list is emptied
clearAllLetters(w) ==
    [w EXCEPT !.objs = DisposeAll(w.objs, RemovedIds(w.letterMeshes, 0)),
              !.letterMeshes = <<>>]

\* "Temporarily override global font size with clock font size"
OverrideFontSize(st, ck) == [st EXCEPT !.fontSize = ck.clockFontSize]

\* A spawn that leaves the override in place
RestoreFontSizeMissing(st, originalFontSize) == st

\* "Restore original font size"
RestoreFontSize(st, originalFontSize) == [st EXCEPT !.fontSize = originalFontSize]

\* InflatableText.settings after one call of spawnDigitAt or spawnColon
SettingsAfterSpawn(st, ck) == RestoreFontSize(OverrideFontSize(st, ck), st.fontSize)

\* InflatableText.settings after n such calls in a row
RECURSIVE SettingsAfterSpawns(_, _, _)
SettingsAfterSpawns(st, ck, n) ==
    IF n = 0 THEN st ELSE SettingsAfterSpawns(SettingsAfterSpawn(st, ck), ck, n - 1)

\* spawnDigitAt(char, positionIndex, position)
spawnDigitAt(w, fnt, st, ck, char, positionIndex, position) ==
    LET letterObj == createLetterMesh(fnt, OverrideFontSize(st, ck), char, position)
        id == NewId(w.objs)
    IN IF letterObj = Null THEN w
       ELSE [w EXCEPT
               !.objs = [i \in DOMAIN w.objs \cup {id} |->
                            IF i = id THEN [letterObj EXCEPT !.isClockDigit = TRUE, !.isStatic = TRUE]
                            ELSE w.objs[i]],
               !.digitMeshes = [k \in DOMAIN w.digitMeshes \cup {positionIndex} |->
                                   IF k = positionIndex THEN id ELSE w.digitMeshes[k]],
               !.letterMeshes = Append(w.letterMeshes, id)]

\* spawnColon(positionIndex, position)
spawnColon(w, fnt, st, ck, positionIndex, position) ==
    LET colonObj == createLetterMesh(fnt, OverrideFontSize(st, ck), ":", position)
        id == NewId(w.objs)
    IN IF colonObj = Null THEN w
       ELSE [w EXCEPT
               !.objs = [i \in DOMAIN w.objs \cup {id} |-> IF i = id THEN colonObj ELSE w.objs[i]],
               !.colonMeshes = Append(w.colonMeshes, id),
               !.letterMeshes = Append(w.letterMeshes, id)]

\* spawnInitialDigits(): the loop from slot i on
RECURSIVE spawnInitialDigits(_, _, _, _, _)
spawnInitialDigits(w, fnt, st, ck, i) ==
    IF i >= Len(ck.currentTime) THEN w
    ELSE LET position == ck.digitPositions[i + 1]
         IN spawnInitialDigits(
                IF position.isColon
                THEN spawnColon(w, fnt, st, ck, i, position)
                ELSE spawnDigitAt(w, fnt, st, ck, ck.currentTime[i + 1], i, position),
                fnt, SettingsAfterSpawn(st, ck), ck, i + 1)

\* The push of transitionDigit for the two values of Math.random()
PushVelocity(ry, rx) ==
    [x |-> RDiv((rx - 50) * PushForce, 200), y |-> RDiv(PushForce * (50 + ry \div 2), 100)]

\* transitionDigit(positionIndex, newChar)
transitionDigit(w, fnt, st, ck, positionIndex, newChar, ry, rx) ==
    LET position == ck.digitPositions[positionIndex + 1]
        pushed ==
            IF positionIndex \in DOMAIN w.digitMeshes
            THEN [w EXCEPT
                    !.objs[w.digitMeshes[positionIndex]] =
                        [@ EXCEPT !.isStatic = FALSE, !.isClockDigit = FALSE, !.isFlyingDigit = TRUE,
                                  !.velocity = PushVelocity(ry, rx),
                                  !.mesh.opacity = OldDigitOpacity,
                                  !.mesh.scale = ScaleStart],
                    !.digitMeshes = [k \in DOMAIN w.digitMeshes \ {positionIndex} |-> w.digitMeshes[k]]]
            ELSE w
    IN spawnDigitAt(pushed, fnt, st, ck, newChar, positionIndex, position)

\* The slots whose digit differs between the shown time and newTime
ChangedSlots(ck, newTime) ==
    {i \in DigitSlots : i + 1 > Len(ck.currentTime) \/ newTime[i + 1] # ck.currentTime[i + 1]}

\* The value Math.random() returns in the transition of slot i (it is
\* called only for a slot that has a digit to push)
RandomAt(r, i) == IF i \in DOMAIN r THEN r[i] ELSE 0

\* The loop of updateClockTime from slot i on
RECURSIVE TransitionFrom(_, _, _, _, _, _, _, _)
TransitionFrom(w, fnt, st, ck, newTime, i, ry, rx) ==
    IF i >= Len(newTime) THEN w
    ELSE TransitionFrom(
            IF i \in ChangedSlots(ck, newTime)
            THEN transitionDigit(w, fnt, st, ck, i, newTime[i + 1], RandomAt(ry, i), RandomAt(rx, i))
            ELSE w,
            fnt,
            IF i \in ChangedSlots(ck, newTime) THEN SettingsAfterSpawn(st, ck) ELSE st,
            ck, newTime, i + 1, ry, rx)

\* setInterval: the id of the new timer
NewTimer(ts) == CHOOSE n \in 1..(Cardinality(ts) + 1) : n \notin ts

\* initClockMode()
initClockMode ==
    /\ ~clock.enabled
    /\ LET forced == ~settings.useBoundingBoxSize
           st == IF forced
                 THEN [settings EXCEPT !.useBoundingBoxSize = TRUE,
                                       !.boundingBoxWidth = ClockBoxWidth,
                                       !.boundingBoxHeight = ClockBoxHeight]
                 ELSE settings
           bounds == IF forced THEN updateCanvasBounds(st) ELSE canvasBounds
           ck == [clock EXCEPT !.enabled = TRUE,
                               !.digitPositions = calculateDigitPositions(st, bounds, clock),
                               !.currentTime = formatTime(date)]
           cleared == clearAllLetters(World(objs, letterMeshes, clock.digitMeshes, clock.colonMeshes))
           id == NewTimer(timers)
       IN \E w \in {spawnInitialDigits(cleared, font, st, ck, 0)} :
           /\ settings' = SettingsAfterSpawns(st, ck, Len(ck.currentTime))
           /\ canvasBounds' = bounds
           /\ clock' = [ck EXCEPT !.digitMeshes = w.digitMeshes,
                                  !.colonMeshes = w.colonMeshes,
                                  !.intervalId = id]
           /\ timers' = timers \cup {id}
           /\ objs' = Collect(w.objs, w.letterMeshes, w)
           /\ letterMeshes' = w.letterMeshes
    /\ op' = [NoOp EXCEPT !.name = "initClockMode", !.prevLen = Len(letterMeshes),
                          !.box = BoxSettings(settings)]
    /\ UNCHANGED <<font, text, date, frames>>

clearIntervalIgnored(ts, id) == ts

\* clearInterval(id): the timer is no longer live
clearInterval(ts, id) == ts \ {id}

\* stopClockMode()
stopClockMode ==
    /\ clock.enabled
    /\ LET cleared == clearAllLetters(World(objs, letterMeshes, << >>, <<>>))
           colons == {clock.colonMeshes[i] : i \in 1..Len(clock.colonMeshes)}
           st == [settings EXCEPT !.useBoundingBoxSize = FALSE]
       IN /\ timers' = IF clock.intervalId # 0 THEN clearInterval(timers, clock.intervalId) ELSE timers
          /\ clock' = [clock EXCEPT !.enabled = FALSE, !.intervalId = 0,
                                    !.digitMeshes = << >>, !.colonMeshes = <<>>]
          /\ objs' = Collect(DisposeAll(cleared.objs, colons), <<>>, cleared)
          /\ letterMeshes' = <<>>
          /\ settings' = st
          /\ canvasBounds' = updateCanvasBounds(st)
    /\ op' = [NoOp EXCEPT !.name = "stopClockMode", !.prevLen = Len(letterMeshes)]
    /\ UNCHANGED <<font, text, date, frames>>

\* updateClockTime(), run adv seconds after the wall clock was last read
updateClockTimeAt(adv) ==
        /\ date + adv <= StartDate + MaxClockTicks
        /\ date' = date + adv
        /\ IF ~clock.enabled
           THEN /\ UNCHANGED <<objs, letterMeshes, clock, settings>>
                /\ op' = [NoOp EXCEPT !.name = "updateClockTime"]
           ELSE LET newTime == formatTime(date + adv)
                    pushed == ChangedSlots(clock, newTime) \cap DOMAIN clock.digitMeshes
                    before == World(objs, letterMeshes, clock.digitMeshes, clock.colonMeshes)
                IN \E ry \in [pushed -> RandomSet], rx \in [pushed -> RandomSet] :
                   \E w \in {TransitionFrom(before, font, settings, clock, newTime, 0, ry, rx)} :
                       /\ objs' = Collect(w.objs, w.letterMeshes, w)
                       /\ letterMeshes' = w.letterMeshes
                       /\ clock' = [clock EXCEPT !.digitMeshes = w.digitMeshes,
                                                 !.colonMeshes = w.colonMeshes,
                                                 !.currentTime = newTime]
                       /\ settings' = SettingsAfterSpawns(settings, clock,
                                          Cardinality(ChangedSlots(clock, newTime)))
                       /\ op' = [NoOp EXCEPT !.name = "updateClockTime",
                                             !.prevLen = Len(letterMeshes),
                                             !.slots = ChangedSlots(clock, newTime)]
        /\ UNCHANGED <<font, text, canvasBounds, timers, frames>>

\* updateClockTime as the callback of a live interval timer
updateClockTime ==
    \E id \in timers, adv \in 1..2 : updateClockTimeAt(adv)

\* Clock mode: the clock is switched on and off, the timer ticks, and the
\* frame loop runs
ClockNext ==
    \/ fontLoaded
    \/ initClockMode
    \/ stopClockMode
    \/ updateClockTime
    \/ setGravity
    \/ animateBounded

ClockSpec == Init /\ [][ClockNext]_vars


---------------------------------------------------------------------------
(* Clock mode: digit swap, physics of the digits, spawn state *)

\* A clock tick ran in this step, with the clock on and the font loaded
ClockTicked == op'.name = "updateClockTime" /\ clock.enabled /\ font

\* The objects a step allocates, and the ones it turns into flying digits
Spawned == DOMAIN objs' \ DOMAIN objs
BecameFlying == {id \in DOMAIN objs : ~objs[id].isFlyingDigit /\ objs'[id].isFlyingDigit}

\* C5: on a clock tick with the font loaded, every digit slot whose
\* character differs between the previous and the new time string yields
\* exactly one entity that becomes flying (not static, velocity.y > 0) and
\* exactly one newly spawned static entity at the slot position with the new
\* digit; unchanged slots and the colon slots yield neither.
C5_DigitSwap ==
    [][ClockTicked =>
        LET newTime == clock'.currentTime
            differing == {i \in DigitSlots : clock.currentTime[i + 1] # newTime[i + 1]}
        IN /\ \A i \in differing :
                /\ i \in DOMAIN clock.digitMeshes
                /\ clock.digitMeshes[i] \in BecameFlying
                /\ ~objs'[clock.digitMeshes[i]].isStatic
                /\ objs'[clock.digitMeshes[i]].velocity.y > 0
                /\ i \in DOMAIN clock'.digitMeshes
                /\ clock'.digitMeshes[i] \in Spawned
                /\ objs'[clock'.digitMeshes[i]].isStatic
                /\ objs'[clock'.digitMeshes[i]].char = newTime[i + 1]
                /\ objs'[clock'.digitMeshes[i]].position =
                       [x |-> clock.digitPositions[i + 1].x, y |-> clock.digitPositions[i + 1].y]
           /\ Cardinality(BecameFlying) = Cardinality(differing)
           /\ Cardinality(Spawned) = Cardinality(differing)
           /\ \A i \in DigitSlots \ differing :
                (i \in DOMAIN clock.digitMeshes) =>
                    (i \in DOMAIN clock'.digitMeshes /\ clock'.digitMeshes[i] = clock.digitMeshes[i])
           /\ clock'.colonMeshes = clock.colonMeshes]_vars

\* C7: a frame tick leaves the position and the velocity of every static
\* letter of the active list unchanged, for any gravity and any other
\* letters in the list.
C7_StaticExempt ==
    [][op'.name = "animate" =>
        \A i \in 1..Len(letterMeshes) :
            objs[letterMeshes[i]].isStatic =>
                /\ objs'[letterMeshes[i]].position = objs[letterMeshes[i]].position
                /\ objs'[letterMeshes[i]].velocity = objs[letterMeshes[i]].velocity]_vars

\* The object is Settled (fully inflated, not inflating) and static
SettledStatic(id) ==
    /\ id \in DOMAIN objs
    /\ objs[id].inflation = InflationFull
    /\ ~objs[id].isInflating
    /\ objs[id].isStatic

\* C8: right after clock activation with the font loaded, the 6 digit
\* entities and the 2 colon entities exist and each is Settled and static;
\* right after a clock tick, so is every digit spawned by transitionDigit.
C8_GlyphsSettledStatic ==
    (font /\ clock.enabled) =>
        /\ op.name = "initClockMode" =>
              /\ DOMAIN clock.digitMeshes = DigitSlots
              /\ Len(clock.colonMeshes) = 2
              /\ \A i \in DigitSlots : SettledStatic(clock.digitMeshes[i])
              /\ \A k \in 1..Len(clock.colonMeshes) : SettledStatic(clock.colonMeshes[k])
        /\ op.name = "updateClockTime" =>
              \A i \in op.slots :
                  i \in DOMAIN clock.digitMeshes /\ SettledStatic(clock.digitMeshes[i])


\* Clock mode for ever: the font arrives, the timer ticks and the frame loop
\* runs any number of callbacks
FairClockNext ==
    \/ fontLoaded
    \/ initClockMode
    \/ updateClockTime
    \/ animate

\* The font loader calls back once the font file has arrived
FairClockSpec == Init /\ [][FairClockNext]_vars /\ WF_vars(fontLoaded)

\* The object id is a flying digit of the active list
FlyingListed(id) ==
    /\ id \in DOMAIN objs
    /\ objs[id].isFlyingDigit
    /\ \E i \in 1..Len(letterMeshes) : letterMeshes[i] = id

\* C6 as stated: while the frame loop keeps ticking, every replaced digit
\* is, after finitely many frame ticks, removed from the active list.
C6_FlyingDigitsRemoved ==
    ([]<><<animate>>_vars) =>
        \A id \in 1..(8 + 2 * MaxClockTicks) : FlyingListed(id) ~> ~FlyingListed(id)

---------------------------------------------------------------------------
(* Growth of the active list in the text-input handler *)

\* C11: with the font loaded, for every layout index at or beyond the
\* length of the active list the text-input handler appends exactly one new
\* entity with the layout character, inflation 0, flat bevel, isInflating,
\* velocity 0 and the layout position; afterwards the list has one entity
\* per non-whitespace character of the text, in text order.
C11_ReconcileGrows ==
    [][(op'.reconciled /\ font) =>
        /\ \A i \in (Len(letterMeshes) + 1)..Len(op'.layout) :
              /\ i <= Len(letterMeshes')
              /\ letterMeshes'[i] \notin DOMAIN objs
              /\ \A j \in 1..Len(letterMeshes') : letterMeshes'[j] = letterMeshes'[i] => j = i
              /\ LET letterObj == objs'[letterMeshes'[i]]
                 IN /\ letterObj.char = op'.layout[i].char
                    /\ letterObj.inflation = 0
                    /\ letterObj.currentBevelThickness = 0
                    /\ letterObj.currentBevelSize = 0
                    /\ letterObj.isInflating
                    /\ letterObj.velocity = [x |-> 0, y |-> 0]
                    /\ letterObj.position = [x |-> op'.layout[i].x, y |-> op'.layout[i].y]
                    /\ letterObj.mesh.position = letterObj.position
                    /\ letterObj.mesh.inScene
                    /\ letterObj.mesh.geometry = createLetterGeometry(settings', letterObj.char, 0, 0)
        /\ [i \in 1..Len(letterMeshes') |-> objs'[letterMeshes'[i]].char]
              = StripWhitespace(ToUpperCase(text'))]_vars

\* The handler appended a fresh letter to a list whose first letter is
\* already inflating
C11_Witness ==
    /\ InputReconciled /\ font
    /\ op.prevLen >= 1 /\ Len(letterMeshes) > op.prevLen
    /\ objs[letterMeshes[Len(letterMeshes)]].inflation = 0
    /\ objs[letterMeshes[1]].inflation > 0

---------------------------------------------------------------------------
(* Inflation settles *)

\* The frame loop with deltaTime drawn from dts, any number of callbacks
animateOn(dts) ==
    \E dt \in dts : Frame(dt) /\ UNCHANGED frames

\* Frames in which time has passed
PositiveDt == {dt \in DtSet : dt > 0}

\* Typing in automatic spacing, the replay button and the frame loop
InflateNext ==
    \/ fontLoaded
    \/ TypeChar
    \/ DeleteChar
    \/ replay
    \/ animateOn(DtSet)

InflateSpec == Init /\ [][InflateNext]_vars

\* Frame ticks with positive deltaTime occur repeatedly
TicksRepeat == []<><<animateOn(PositiveDt)>>_vars

\* The object id is in the active list
Listed(id) == id \in DOMAIN objs /\ \E i \in 1..Len(letterMeshes) : letterMeshes[i] = id

\* The object id is in the active list and Settled
Settled(id) == Listed(id) /\ ~objs[id].isInflating /\ objs[id].inflation = InflationFull

\* C12: with inflationSpeed > 0 and frame ticks of positive deltaTime
\* occurring repeatedly, every inflating entity of the active list eventually
\* is Settled (inflation 1, not inflating) unless it is removed or replayed
\* first; a tick settles it exactly when the accumulated inflation
\* inflation + deltaTime * inflationSpeed reaches 1; and a Settled entity stays
\* Settled on every tick.
C12_InflationSettles ==
    /\ TicksRepeat =>
          \A id \in 1..(MaxTextLen + 1) :
              (Listed(id) /\ objs[id].isInflating)
                  ~> (Settled(id) \/ ~Listed(id) \/ op.name = "replay")
    /\ [][op'.name = "animate" =>
          \A i \in 1..Len(letterMeshes) :
              LET before == objs[letterMeshes[i]]
                  after == objs'[letterMeshes[i]]
                  sum == before.inflation + op'.dt * settings.inflationSpeed
              IN IF ~before.isInflating
                 THEN after.inflation = before.inflation /\ ~after.isInflating
                 ELSE IF sum >= InflationFull
                 THEN after.inflation = InflationFull /\ ~after.isInflating
                 ELSE after.inflation = sum /\ after.isInflating]_vars

\* A frame tick in which time passed left one letter Settled, with its
\* bevel built, while a letter typed later is still inflating
C12_Witness ==
    /\ FrameRan /\ op.dt > 0
    /\ \E i \in 1..Len(letterMeshes) :
          /\ Settled(letterMeshes[i])
          /\ objs[letterMeshes[i]].mesh.geometry.bevelSize > 0
    /\ \E i \in 1..Len(letterMeshes) : objs[letterMeshes[i]].isInflating

---------------------------------------------------------------------------
(* Letter creation while the font is not loaded *)

\* Typing and clock mode, before and after the font arrives
FontNext ==
    \/ fontLoaded
    \/ AppendLetter
    \/ DeleteChar
    \/ initClockMode
    \/ updateClockTime

FontSpec == Init /\ [][FontNext]_vars

\* C13: while the font is unset, no handler (text input, clock activation,
\* clock tick) creates an entity or adds one to the active list, the scene
\* or the clock's tracking; and the step that loads the font creates no
\* letter for input received earlier.
C13_FontBackpressure ==
    [][~font =>
        /\ letterMeshes' = <<>>
        /\ DOMAIN objs' = {}
        /\ DOMAIN clock'.digitMeshes = {}
        /\ clock'.colonMeshes = <<>>]_vars

\* Text was typed, the clock was activated and has ticked, all without the
\* font
C13_Witness ==
    /\ ~font
    /\ \E i \in 1..Len(text) : ~IsWhitespace(text[i])
    /\ clock.enabled
    /\ op.name = "updateClockTime"
    /\ clock.currentTime = formatTime(StartDate + 1)


---------------------------------------------------------------------------
(* Text without a non-whitespace character *)

\* The 'input' listener of the text field ran in this step
HandlerRan == op'.name \in {"textInput", "spacingAutomatic", "spacingManual"}

\* C14: whenever the text-input handler runs with a text that has no
\* non-whitespace character, in automatic and in manual spacing alike, the
\* active list is empty afterwards and every entity that was active has left
\* the scene and is disposed.
C14_EmptyTextClears ==
    [][(HandlerRan /\ StripWhitespace(text') = <<>>) =>
        /\ letterMeshes' = <<>>
        /\ \A i \in 1..Len(letterMeshes) :
              letterMeshes[i] \in DOMAIN objs' => Released(objs'[letterMeshes[i]])]_vars

---------------------------------------------------------------------------
(* Clock mode and the bounding-box settings *)

\* Values of the bounding-box width slider
BoxWidthSet == {DefaultBoxWidth, 2 * DefaultBoxWidth}

\* "Use custom bounding box size" checkbox
setUseBoundingBoxSize ==
    /\ settings' = [settings EXCEPT !.useBoundingBoxSize = ~settings.useBoundingBoxSize]
    /\ canvasBounds' = updateCanvasBounds(settings')
    /\ op' = [NoOp EXCEPT !.name = "setUseBoundingBoxSize"]
    /\ UNCHANGED <<font, text, objs, letterMeshes, clock, timers, date, frames>>

\* Bounding box width slider
setBoundingBoxWidth ==
    \E width \in BoxWidthSet :
        /\ width # settings.boundingBoxWidth
        /\ settings' = [settings EXCEPT !.boundingBoxWidth = width]
        /\ canvasBounds' = updateCanvasBounds(settings')
        /\ op' = [NoOp EXCEPT !.name = "setBoundingBoxWidth"]
        /\ UNCHANGED <<font, text, objs, letterMeshes, clock, timers, date, frames>>

\* Clock mode switched on and off under any bounding-box configuration
BoxNext ==
    \/ fontLoaded
    \/ setUseBoundingBoxSize
    \/ setBoundingBoxWidth
    \/ initClockMode
    \/ stopClockMode
    \/ updateClockTime

BoxSpec == Init /\ [][BoxNext]_vars

\* C15: for any values of useBoundingBoxSize, boundingBoxWidth and
\* boundingBoxHeight before initClockMode, after initClockMode followed by
\* stopClockMode all three settings have the values they had before the
\* activation.
C15_BoxRoundTrip ==
    [][(op.name = "initClockMode" /\ op'.name = "stopClockMode") =>
        BoxSettings(settings') = op.box]_vars

---------------------------------------------------------------------------
(* Layout of longer texts: word wrap, cell sizes, grid positions *)

MaxLayoutLen == 5

LayoutAlphabet == {"a", " ", "\n"}
LayoutTexts == UNION {[1..n -> LayoutAlphabet] : n \in 0..MaxLayoutLen}
FontSizeSet == {DefaultFontSize, 2 * DefaultFontSize}   \* settings.fontSize: 5, 10

\* An 'input' event that fills the empty text field with a pasted value
pasteText ==
    \E value \in LayoutTexts \ {<<>>} :
        /\ text = <<>>
        /\ textInput(value)

\* An 'input' event that empties the text field
clearText ==
    /\ text # <<>>
    /\ textInput(<<>>)

\* Font size slider
setFontSize ==
    \E v \in FontSizeSet :
        /\ v # settings.fontSize
        /\ settings' = [settings EXCEPT !.fontSize = v]
        /\ IF settings.autoSpacing
           THEN inputHandler(text, settings', "setFontSize")
           ELSE /\ op' = [NoOp EXCEPT !.name = "setFontSize"]
                /\ UNCHANGED <<text, objs, letterMeshes>>
        /\ UNCHANGED <<font, canvasBounds, clock, timers, date, frames>>

LayoutNext ==
    \/ fontLoaded
    \/ pasteText
    \/ clearText
    \/ setFontSize
    \/ spacingAutomatic
    \/ spacingManual

LayoutSpec == Init /\ [][LayoutNext]_vars

\* A step in which the text-input handler ran to its layout
LaidOut == op'.name \in {"textInput", "setFontSize", "spacingAutomatic", "spacingManual"}
           /\ ToUpperCase(text') # <<>>

\* The arguments the handler passes to wrapTextToFit for the value value
WrapArgs(value, st, bounds) ==
    [lines |-> SplitOn(ToUpperCase(value), "\n"),
     boxWidth |-> bounds.maxX - bounds.minX,
     boxHeight |-> bounds.maxY - bounds.minY,
     letterWidth |-> RDiv(st.fontSize * 12, 10),
     letterHeight |-> RDiv(st.fontSize * 15, 10)]

\* What wrapTextToFit returns to the handler
Wrapped(value, st, bounds) ==
    LET args == CHOOSE a \in {WrapArgs(value, st, bounds)} : TRUE
    IN wrapTextToFit(args.lines, args.boxWidth, args.boxHeight, args.letterWidth, args.letterHeight)

\* The words of the lines ls, as a set
WordsOf(ls) == UNION {{SplitOn(ls[i], " ")[k] : k \in 1..Len(SplitOn(ls[i], " "))} : i \in 1..Len(ls)}

\* C16: in automatic mode, when maxCharsPerLine = floor(boxWidth / letterWidth)
\* is positive, every line wrapTextToFit returns has at most maxCharsPerLine
\* characters, and a word that is no longer than maxCharsPerLine is never
\* split: it is a word of a returned line.
C16_WrapCapacity ==
    [][(LaidOut /\ settings'.autoSpacing) =>
          \A args \in {WrapArgs(text', settings', canvasBounds')} : \A maxCharsPerLine \in {args.boxWidth \div args.letterWidth} :
          \A wrappedLines \in {Wrapped(text', settings', canvasBounds').lines} : \A wrappedWords \in {WordsOf(wrappedLines)} :
             maxCharsPerLine > 0 =>
                /\ \A i \in 1..Len(wrappedLines) : Len(wrappedLines[i]) <= maxCharsPerLine
                /\ \A word \in WordsOf(args.lines) :
                       (word # <<>> /\ Len(word) <= maxCharsPerLine) => word \in wrappedWords
      ]_vars


\* The state after a run of the text-input handler that reached its layout
\* in automatic spacing mode
AutoLaidOut ==
    /\ op.name \in {"textInput", "setFontSize", "spacingAutomatic"}
    /\ op.reconciled
    /\ settings.autoSpacing

\* The rounding of the fixed-point quotients of a layout, at most half a
\* thousandth of a world unit per cell, accumulated over a row or a column
RoundOff == MaxLayoutLen + 1

\* C17: in automatic spacing mode with maxCharsPerLine > 0 the cell sizes
\* wrapTextToFit returns fit the box, (number of wrapped lines) * letterHeight
\* <= boxHeight and (longest wrapped line's non-whitespace length) *
\* letterWidth <= boxWidth, and every grid position the handler computes lies
\* inside [minX, maxX] x [minY, maxY] (all up to the rounding RoundOff).
C17_AutoLayoutFits ==
    AutoLaidOut =>
       \A args \in {WrapArgs(text, settings, canvasBounds)} :
       \A r \in {Wrapped(text, settings, canvasBounds)} :
          args.boxWidth \div args.letterWidth > 0 =>
             /\ Len(r.lines) * r.letterHeight <= args.boxHeight + RoundOff
             /\ \A i \in 1..Len(r.lines) :
                   Len(StripWhitespace(r.lines[i])) * r.letterWidth <= args.boxWidth + RoundOff
             /\ \A i \in 1..Len(op.layout) :
                   /\ canvasBounds.minX - RoundOff <= op.layout[i].x
                   /\ op.layout[i].x <= canvasBounds.maxX + RoundOff
                   /\ canvasBounds.minY - RoundOff <= op.layout[i].y
                   /\ op.layout[i].y <= canvasBounds.maxY + RoundOff

\* The handler laid out a text whose cells had to shrink on both axes
C17_Witness ==
    /\ AutoLaidOut
    /\ Len(op.layout) >= 4
    /\ \A args \in {WrapArgs(text, settings, canvasBounds)} :
       \A r \in {Wrapped(text, settings, canvasBounds)} :
          /\ args.boxWidth \div args.letterWidth > 0
          /\ r.letterWidth < args.letterWidth
          /\ r.letterHeight < args.letterHeight
          /\ Len(r.lines) >= 2


\* The state after a run of the text-input handler that reached its grid
\* layout, in automatic or manual spacing mode
GridLaidOut ==
    /\ op.name \in {"textInput", "setFontSize", "spacingAutomatic", "spacingManual"}
    /\ op.reconciled
    /\ ~settings.randomSpawn

\* The number of letters newLetters holds for the rows before row number row
RECURSIVE LettersBefore(_, _)
LettersBefore(lines, row) ==
    IF row <= 1 THEN 0
    ELSE LettersBefore(lines, row - 1) + Len(StripWhitespace(lines[row - 1]))

\* The index in newLetters of the letter at column col of row number row
LetterIndex(lines, row, col) ==
    LettersBefore(lines, row) + Len(StripWhitespace(SubSeq(lines[row], 1, col)))

\* C18: in the grid layout (automatic or manual mode) a whitespace character
\* gets no entry of newLetters and occupies one cell: two letters of one line
\* with only whitespace (k >= 0 characters) between them are (k + 1) *
\* letterWidth apart in x.
C18_WhitespaceTakesCell ==
    GridLaidOut =>
       \A sp \in {Spacing(ToUpperCase(text), settings, canvasBounds)} :
          /\ Len(op.layout) = LettersBefore(sp.lines, Len(sp.lines) + 1)
          /\ \A row \in 1..Len(sp.lines) : \A c1, c2 \in 1..Len(sp.lines[row]) :
                (/\ c1 < c2
                 /\ ~IsWhitespace(sp.lines[row][c1])
                 /\ ~IsWhitespace(sp.lines[row][c2])
                 /\ \A c \in (c1 + 1)..(c2 - 1) : IsWhitespace(sp.lines[row][c]))
                => op.layout[LetterIndex(sp.lines, row, c2)].x
                     - op.layout[LetterIndex(sp.lines, row, c1)].x
                   = (c2 - c1) * sp.letterWidth

---------------------------------------------------------------------------
(* Layout determinism: the text-input handler run twice *)

\* The names under which the text-input handler records a run
InputNames == {"textInput", "spacingAutomatic", "spacingManual", "repeatInput"}

\* The 'input' event delivered once more, with the value unchanged, right
\* after a run of the handler
repeatInput ==
    /\ op.name \in InputNames
    /\ inputHandler(text, settings, "repeatInput")
    /\ UNCHANGED <<font, settings, canvasBounds, clock, timers, date, frames>>

RepeatNext ==
    \/ fontLoaded
    \/ TypeChar
    \/ DeleteChar
    \/ repeatInput
    \/ spacingRandom
    \/ spacingAutomatic
    \/ spacingManual
    \/ animateBounded

RepeatSpec == Init /\ [][RepeatNext]_vars

\* C19: in automatic and manual spacing modes, a second run of the text-input
\* handler right after a first one (no frame in between), with the same text,
\* canvasBounds and settings, computes the same position list and changes
\* nothing in the active list: no letter is created or removed, and no
\* letter's position, velocity, character or geometry changes.
C19_LayoutDeterministic ==
    [][(/\ op.name \in InputNames
        /\ op'.name \in InputNames
        /\ text' = text
        /\ settings' = settings
        /\ canvasBounds' = canvasBounds
        /\ ~settings.randomSpawn)
       => /\ op'.layout = op.layout
          /\ letterMeshes' = letterMeshes
          /\ objs' = objs
      ]_vars

\* The handler ran a second time on a laid-out text of two letters, one of
\* them inflated by earlier frames
C19_Witness ==
    /\ op.name = "repeatInput"
    /\ op.reconciled
    /\ ~settings.randomSpawn
    /\ font
    /\ Len(op.layout) >= 2
    /\ Len(letterMeshes) = Len(op.layout)
    /\ \E i \in 1..Len(letterMeshes) : objs[letterMeshes[i]].inflation > 0

---------------------------------------------------------------------------
(* Clock mode: the font size of the digits *)

\* C20: the clock's font-size override does not leak. Every step that calls
\* spawnDigitAt or spawnColon (initClockMode, updateClockTime) leaves
\* settings.fontSize as it was, with or without the font, and a letter the
\* text-input handler creates afterwards is built with the general font size
\* (DefaultFontSize, which no handler of FontSpec changes).
C20_FontSizeNotLeaked ==
    [][/\ op'.name \in {"initClockMode", "updateClockTime"}
            => settings'.fontSize = settings.fontSize
       /\ (op'.name = "textInput" /\ op'.reconciled)
            => \A i \in (Len(letterMeshes) + 1)..Len(letterMeshes') :
                  objs'[letterMeshes'[i]].mesh.geometry.size = DefaultFontSize
      ]_vars

\* With the clock on and a digit spawned at the clock's font size, the
\* handler created a letter, at the general font size
C20_Witness ==
    /\ op.name = "textInput"
    /\ op.reconciled
    /\ clock.enabled
    /\ Len(letterMeshes) > op.prevLen
    /\ op.prevLen >= 1
    /\ \E k \in DOMAIN clock.digitMeshes :
          objs[clock.digitMeshes[k]].mesh.geometry.size = ClockFontSize
    /\ objs[letterMeshes[Len(letterMeshes)]].mesh.geometry.size = DefaultFontSize
    /\ settings.fontSize = DefaultFontSize

---------------------------------------------------------------------------
(* Resources: meshes, geometries and materials *)

MaxRebuilds == 1

\* The frame loop with a positive deltaTime, at most MaxRebuilds callbacks
animateFew ==
    \E dt \in PositiveDt : frames < MaxRebuilds /\ frames' = frames + 1 /\ Frame(dt)

\* The text tool and the clock together: typing, clock activation,
\* deactivation and ticks, and the frame loop
AllNext ==
    \/ fontLoaded
    \/ AppendLetter
    \/ clearText
    \/ initClockMode
    \/ stopClockMode
    \/ updateClockTime
    \/ animateFew

AllSpec == Init /\ [][AllNext]_vars

\* The letter object id is an element of the active list exactly once
OwnedOnce(id) == Cardinality({i \in 1..Len(letterMeshes) : letterMeshes[i] = id}) = 1

\* The mesh of the letter object is in the scene with live resources
Live(letterObj) ==
    /\ letterObj.mesh.inScene
    /\ ~letterObj.mesh.geometryDisposed
    /\ ~letterObj.mesh.materialDisposed

\* C21: no resource leak. Every letter mesh ever created is either owned by
\* exactly one element of letterMeshes and in the scene, or has been removed
\* from the scene with its geometry and material disposed; and every geometry
\* replaced by a rebuild (frame tick or character change) has been disposed.
C21_NoResourceLeak ==
    \A id \in DOMAIN objs :
        /\ (OwnedOnce(id) /\ Live(objs[id])) \/ Released(objs[id])
        /\ ~objs[id].mesh.replacedUndisposed

\* A letter whose geometry was rebuilt by a frame is in the list, and a
\* letter removed by the handler is still tracked by the clock, disposed
C21_Witness ==
    /\ \E i \in 1..Len(letterMeshes) :
           /\ objs[letterMeshes[i]].inflation > 0
           /\ Live(objs[letterMeshes[i]])
    /\ \E id \in DOMAIN objs : ~OwnedOnce(id) /\ Released(objs[id])

---------------------------------------------------------------------------
(* Rendering: the transforms the renderer sees *)

\* C22: at every render call of the frame loop, that is in the state animate
\* leaves behind, the mesh position of every letter of the active list equals
\* the letter's logical position in x and y, also for letters the collision
\* pass moved in that frame and for letters reconcile moved before it.
C22_RenderedTransformsCurrent ==
    op.name = "animate" =>
       \A i \in 1..Len(letterMeshes) :
          /\ objs[letterMeshes[i]].mesh.position.x = objs[letterMeshes[i]].position.x
          /\ objs[letterMeshes[i]].mesh.position.y = objs[letterMeshes[i]].position.y

---------------------------------------------------------------------------
(* Replay *)

\* The replay button is not pressed for ever
ReplayStops == <>[][op'.name # "replay"]_vars

\* C23: replay sets inflation, currentBevelThickness and currentBevelSize to
\* 0 and isInflating to true for every letter of the active list and leaves
\* each letter's character, position and velocity and the list unchanged; and
\* while frames with positive deltaTime keep coming and replay is not pressed
\* for ever, every replayed letter inflates to 1 again, unless it is removed.
C23_ReplayRespawns ==
    /\ [][op'.name = "replay" =>
            /\ letterMeshes' = letterMeshes
            /\ \A i \in 1..Len(letterMeshes) :
                  LET before == objs[letterMeshes[i]]
                      after == objs'[letterMeshes[i]]
                  IN /\ after.inflation = 0
                     /\ after.currentBevelThickness = 0
                     /\ after.currentBevelSize = 0
                     /\ after.isInflating
                     /\ after.char = before.char
                     /\ after.position = before.position
                     /\ after.velocity = before.velocity]_vars
    /\ (TicksRepeat /\ ReplayStops) =>
          \A id \in 1..(MaxTextLen + 1) :
             (op.name = "replay" /\ Listed(id)) ~> (Settled(id) \/ ~Listed(id))

\* Replay has just restarted two letters, one of which had inflated before
\* (its geometry still has the bevel of that inflation)
C23_Witness ==
    /\ op.name = "replay"
    /\ Len(letterMeshes) >= 2
    /\ \A i \in 1..Len(letterMeshes) :
          objs[letterMeshes[i]].inflation = 0 /\ objs[letterMeshes[i]].isInflating
    /\ \E i \in 1..Len(letterMeshes) : objs[letterMeshes[i]].mesh.geometry.bevelThickness > 0

---------------------------------------------------------------------------
(* Collision pass: coincident letters, impulse *)

\* Letters number i and j of the list coincide in the heap mid, and no other
\* two letters of the list collide there, so that the pass pushes no letter
\* into them
CoincidentAlone(mid, i, j) ==
    /\ i < j
    /\ mid[letterMeshes[i]].position = mid[letterMeshes[j]].position
    /\ \A k, l \in 1..Len(letterMeshes) :
          (k < l /\ <<k, l>> # <<i, j>>) =>
             ~Colliding(mid[letterMeshes[k]], mid[letterMeshes[l]], settings)

\* C24: two letters of the active list that are at exactly the same position
\* when the collision pass of a frame starts (distance 0) come out of the
\* pass with position and velocity unchanged, no letter of the list being
\* pushed by another pair in that pass; no quotient by the distance is formed
\* (none is NaN).
C24_ZeroDistanceGuard ==
    [][op'.name = "animate" =>
          \A mid \in {AfterForEach(objs, letterMeshes, op'.dt, settings, canvasBounds)} :
          \A i, j \in 1..Len(letterMeshes) :
             CoincidentAlone(mid, i, j) =>
                \A k \in {i, j} :
                   /\ objs'[letterMeshes[k]].position = mid[letterMeshes[k]].position
                   /\ objs'[letterMeshes[k]].velocity = mid[letterMeshes[k]].velocity
      ]_vars

\* A frame has run over two letters at the same position, which is not a
\* corner of the bounds
C24_Witness ==
    /\ op.name = "animate"
    /\ op.dt > 0
    /\ \E i, j \in 1..Len(letterMeshes) :
          /\ CoincidentAlone(objs, i, j)
          /\ InBounds(objs[letterMeshes[i]], canvasBounds)
          /\ objs[letterMeshes[i]].position.x < canvasBounds.maxX

---------------------------------------------------------------------------
(* Inflation: flag and progress *)

\* C25: in every reachable state every letter object has isInflating true
\* exactly when its inflation is below 1: after creation, after every frame
\* and after replay.
C25_FlagMatchesProgress ==
    \A id \in DOMAIN objs : objs[id].isInflating <=> objs[id].inflation < InflationFull

\* After a frame the list holds a letter that has settled and one that is
\* part of the way
C25_Witness ==
    /\ op.name = "animate"
    /\ \E i \in 1..Len(letterMeshes) : Settled(letterMeshes[i])
    /\ \E i \in 1..Len(letterMeshes) :
          /\ objs[letterMeshes[i]].isInflating
          /\ objs[letterMeshes[i]].inflation > 0
          /\ objs[letterMeshes[i]].inflation < InflationFull


\* The relative velocity of letterB against letterA along the offset from a
\* to b (the collision normal times the distance)
AlongNormal(a, b, letterA, letterB) ==
    (letterB.velocity.x - letterA.velocity.x) * (b.position.x - a.position.x)
        + (letterB.velocity.y - letterA.velocity.y) * (b.position.y - a.position.y)

\* C26: when the two letters of a list of two overlap and approach each other
\* at the collision pass of a frame (relative velocity along the normal < 0) and
\* 0 <= bounciness <= 1, the relative velocity along that normal after the
\* impulse is not below its value before (the closing speed does not grow),
\* and the sum of the two velocities is unchanged.
C26_ImpulseDoesNotSpeedUp ==
    [][(/\ op'.name = "animate"
        /\ Len(letterMeshes) = 2
        /\ settings.bounciness >= 0 /\ settings.bounciness <= 10) =>
          \A mid \in {AfterForEach(objs, letterMeshes, op'.dt, settings, canvasBounds)} :
             LET a == mid[letterMeshes[1]]
                 b == mid[letterMeshes[2]]
                 letterA == objs'[letterMeshes[1]]
                 letterB == objs'[letterMeshes[2]]
             IN (Colliding(a, b, settings) /\ AlongNormal(a, b, a, b) < 0) =>
                   /\ AlongNormal(a, b, letterA, letterB) >= AlongNormal(a, b, a, b)
                   /\ letterA.velocity.x + letterB.velocity.x = a.velocity.x + b.velocity.x
                   /\ letterA.velocity.y + letterB.velocity.y = a.velocity.y + b.velocity.y
      ]_vars

---------------------------------------------------------------------------
(* Clock mode and the text field together *)

\* The letter objects ClockMode.digitMeshes and ClockMode.colonMeshes refer to
ClockTracked ==
    {clock.digitMeshes[k] : k \in DOMAIN clock.digitMeshes}
        \cup {clock.colonMeshes[i] : i \in 1..Len(clock.colonMeshes)}

\* C27: in every state reached by clock activation, ticks, deactivation and
\* text input in any order, every letter object that digitMeshes or
\* colonMeshes refers to is an element of letterMeshes, its mesh is in the
\* scene and not disposed, and its character is still a digit (a colon for
\* colonMeshes), not one written by the text-input handler.
C27_NoDanglingClockReference ==
    /\ \A id \in ClockTracked : Listed(id) /\ Live(objs[id])
    /\ \A k \in DOMAIN clock.digitMeshes :
          \E d \in 1..Len(DigitChars) : objs[clock.digitMeshes[k]].char = DigitChars[d]
    /\ \A i \in 1..Len(clock.colonMeshes) : objs[clock.colonMeshes[i]].char = ":"


\* C28: the geometry of every clock digit and colon, as built at creation
\* and as rebuilt by any later frame, has the size ClockMode.clockFontSize,
\* also when that differs from settings.fontSize.
C28_ClockGlyphsKeepSize ==
    \A id \in ClockTracked : objs[id].mesh.geometry.size = clock.clockFontSize


\* C29: in every state in which clock mode is enabled, in whatever order the
\* font load, the activation and the ticks came, each of the 6 digit slots has
\* a letter object in ClockMode.digitMeshes whose character is the character
\* of ClockMode.currentTime at that slot, and colonMeshes holds exactly 2
\* colons.
C29_DisplayMatchesTime ==
    clock.enabled =>
       /\ DOMAIN clock.digitMeshes = DigitSlots
       /\ \A k \in DOMAIN clock.digitMeshes :
             objs[clock.digitMeshes[k]].char = clock.currentTime[k + 1]
       /\ Len(clock.colonMeshes) = 2


----------------------------------------------------------------------------
(* The clock timer *)

\* updateClockTime() called when no interval timer is live (the function is
\* a global of the page, so a call need not come from the timer)
updateClockTimeUntimed ==
    \E adv \in 1..2 : timers = {} /\ updateClockTimeAt(adv)

TimerNext ==
    \/ fontLoaded
    \/ initClockMode
    \/ stopClockMode
    \/ updateClockTime
    \/ updateClockTimeUntimed

TimerSpec == Init /\ [][TimerNext]_vars

\* C30: after any sequence of initClockMode and stopClockMode calls at most
\* one interval timer is live, a timer is live exactly when ClockMode.enabled
\* is true (and it is the one ClockMode.intervalId names), and a run of
\* updateClockTime while clock mode is disabled spawns nothing and changes no
\* letter object, list or clock field.
C30_SingleClockTimer ==
    /\ [](/\ Cardinality(timers) <= 1
          /\ timers # {} <=> clock.enabled
          /\ clock.enabled => timers = {clock.intervalId})
    /\ [][(op'.name = "updateClockTime" /\ ~clock.enabled) =>
            UNCHANGED <<objs, letterMeshes, clock, settings, timers>>]_vars

\* updateClockTime has run with clock mode off and no timer left, after the
\* clock had been switched on and off again
C30_Witness ==
    /\ op.name = "updateClockTime"
    /\ ~clock.enabled
    /\ timers = {}
    /\ clock.currentTime # InitialClock.currentTime

=============================================================================
